---- MODULE Spec2Model ----
(***************************************************************************)
(* Model of setsid.c: a fork / setsid / record-session-id / execvp wrapper. *)
(* Each process that runs main() has a program counter naming the next     *)
(* library call of main it will make; the operating system state is the    *)
(* process table (process group, session, image, exit status), the session *)
(* file and the directory that holds it.                                   *)
(***************************************************************************)
EXTENDS Integers, Sequences, FiniteSets, TLC

VARIABLES
    argc,          \* main's argc
    mainPid,       \* process identifier of the process the invoker started
    procs,         \* process table: pid -> [pgid, sid, image, pc]
    exitStatus,    \* pid -> exit status, for the processes that have terminated
    pid,           \* main's local `pid` (result of fork) in each process
    sid,           \* main's local `sid` (result of getsid) in each process
    session_file,  \* main's local `session_file` (the FILE*) in each process
    file,          \* the file at session_file_path: [exists, data]
    file0,         \* the same file as it was when the invoker started main
    dirState,      \* the directory of session_file_path
    calls,         \* per process: the library calls made so far, in order
    stderr         \* the diagnostics written so far: <<[proc, msg, errno]>>

vars == <<argc, mainPid, procs, exitStatus, pid, sid, session_file, file, file0, dirState,
          calls, stderr>>

----------------------------------------------------------------------------
(* Bounds of the model *)

MaxArgc == 4
MaxPid == 11
MaxStatus == 2

Pids == 1..MaxPid

----------------------------------------------------------------------------
(* printf("%d\n", sid) *)

Digits == <<"0", "1", "2", "3", "4", "5", "6", "7", "8", "9">>

RECURSIVE DecStr(_)
DecStr(n) ==
    IF n < 10 THEN <<Digits[n + 1]>>
    ELSE DecStr(n \div 10) \o <<Digits[(n % 10) + 1]>>

(* variant: the format lacks the newline *)
FormatSidNoNewline(n) ==
    IF n < 0 THEN <<"-">> \o DecStr(-n) ELSE DecStr(n)

FormatSid(n) ==
    (IF n < 0 THEN <<"-">> \o DecStr(-n) ELSE DecStr(n)) \o <<"\n">>

----------------------------------------------------------------------------
(* Operating-system state *)

NoStream == [state |-> "unset", buf |-> <<>>]

NewProc(pgid, s, pc) ==
    [pgid |-> pgid, sid |-> s, image |-> "setsid", pc |-> pc]

UsedIds ==
    DOMAIN procs \cup {procs[q].pgid : q \in DOMAIN procs}
                 \cup {procs[q].sid : q \in DOMAIN procs}

IsGroupLeader(p) == procs[p].pgid = p

PriorFiles ==
    { [exists |-> FALSE, data |-> <<>>],
      [exists |-> TRUE, data |-> <<>>],
      [exists |-> TRUE, data |-> <<"9", "9", "9", "9", "\n", "x", "\n">>] }

Init ==
    /\ argc \in 1..MaxArgc
    /\ mainPid \in 2..MaxPid
    /\ \E g \in {mainPid, 1} : procs = (mainPid :> NewProc(g, 1, "main"))
    /\ exitStatus = <<>>
    /\ pid = (mainPid :> 0)
    /\ sid = (mainPid :> 0)
    /\ session_file = (mainPid :> NoStream)
    /\ dirState \in {"writable", "readonly", "missing"}
    /\ file0 \in PriorFiles
    /\ (dirState = "missing" => ~file0.exists)
    /\ file = file0
    /\ calls = (mainPid :> <<>>)
    /\ stderr = <<>>

----------------------------------------------------------------------------
(* Helpers shared by the steps of main *)

At(p, where) == p \in DOMAIN procs /\ procs[p].pc = where

Goto(base, p, where) == procs' = [base EXCEPT ![p].pc = where]

Called(p, names) == calls' = [calls EXCEPT ![p] = @ \o names]

Call(fn, ok) == [fn |-> fn, ok |-> ok]

(* perror(msg): the label and the description of errno, on the error stream *)
Diag(p, msg, errno) ==
    stderr' = Append(stderr, [proc |-> p, msg |-> msg, errno |-> errno])

(* return from main / exit: the process terminates with that status *)
Exit(base, p, st) ==
    /\ procs' = [base EXCEPT ![p].pc = "exited"]
    /\ exitStatus' = exitStatus @@ (p :> st)

Prefixes(s) == {SubSeq(s, 1, k) : k \in 0..Len(s)}

(* fflush(stream): all of the buffer reaches the file and 0 is returned, or *)
(* part of it does and EOF is returned                                      *)
FlushOutcomes(stream, f) ==
    {[r |-> 0, data |-> f.data \o stream.buf, buf |-> <<>>]}
    \cup {[r |-> -1, data |-> f.data \o SubSeq(stream.buf, 1, k),
           buf |-> SubSeq(stream.buf, k + 1, Len(stream.buf))] :
             k \in 0..Len(stream.buf)}

(* fclose(stream): what is left in the buffer is written, the descriptor is *)
(* closed; 0, or EOF with any part of the buffer written                    *)
CloseOutcomes(stream, f) ==
    {[r |-> 0, data |-> f.data \o stream.buf]}
    \cup {[r |-> -1, data |-> f.data \o pre] : pre \in Prefixes(stream.buf)}

(* fopen(path, "w") succeeds when the file can be created in its directory *)
(* or is already there to be truncated                                      *)
FopenErrno ==
    IF dirState = "missing" THEN "ENOENT"
    ELSE IF dirState = "readonly" /\ ~file.exists THEN "EACCES"
    ELSE ""

----------------------------------------------------------------------------
(* The tests main makes on the results of its calls *)

(* variant: the count forgets the session-file argument *)
TooFewArgsOffByOne == argc < 2

TooFewArgs == argc < 3

ForkFailed(r) == r < 0

(* variant: the parent is not told apart from the child *)
ParentTestMissing(r) == FALSE

IsParent(r) == r > 0

(* variant: the result of setsid is not looked at *)
SetsidUnchecked(r) == FALSE

SetsidFailed(r) == r < 0

(* variant: the result of getsid is not looked at *)
GetsidUnchecked(r) == FALSE

GetsidFailed(r) == r < 0

FopenFailed(stream) == stream.state = "null"

FprintfFailed(r) == r < 0

(* variant: the result of fflush is not looked at *)
FflushUnchecked(r) == FALSE

FflushFailed(r) == r # 0

(* variant: the result of fclose is not looked at *)
FcloseUnchecked(r) == FALSE

FcloseFailed(r) == r # 0

----------------------------------------------------------------------------
(* The steps of main, one per library call with the tests that follow it *)

(* lines 12-15: the argument-count check *)
CheckArgs(p) ==
    /\ At(p, "main")
    /\ IF TooFewArgs
       THEN /\ Diag(p, "usage", "")
            /\ Exit(procs, p, 1)
       ELSE /\ Goto(procs, p, "fork")
            /\ UNCHANGED <<stderr, exitStatus>>
    /\ UNCHANGED <<argc, mainPid, pid, sid, session_file, file, file0, dirState, calls>>

(* variant: the new process is put in a process group of its own *)
ForkChildOwnGroup(p, c) == [procs[p] EXCEPT !.pc = "forked", !.pgid = c]

(* the process fork creates: a copy of its parent, in the parent's process *)
(* group and session, about to return from fork                            *)
ForkChild(p, c) == [procs[p] EXCEPT !.pc = "forked"]

(* line 19.  fork fails, or gives the child an unused process identifier   *)
(* that is no active process-group identifier; fork returns the child's    *)
(* identifier in the parent and 0 in the child.                            *)
Fork(p) ==
    /\ At(p, "fork")
    /\ \/ /\ pid' = [pid EXCEPT ![p] = -1]
          /\ Goto(procs, p, "forked")
          /\ Called(p, <<Call("fork", FALSE)>>)
          /\ UNCHANGED <<sid, session_file>>
       \/ \E c \in Pids \ UsedIds :
            /\ procs' = [procs EXCEPT ![p].pc = "forked"] @@ (c :> ForkChild(p, c))
            /\ pid' = [pid EXCEPT ![p] = c] @@ (c :> 0)
            /\ sid' = sid @@ (c :> sid[p])
            /\ session_file' = session_file @@ (c :> session_file[p])
            /\ calls' = [calls EXCEPT ![p] = Append(@, Call("fork", TRUE))]
                           @@ (c :> <<>>)
    /\ UNCHANGED <<argc, mainPid, exitStatus, file, file0, dirState, stderr>>

(* variant: the parent reports failure *)
ParentExitFailure(p) == Exit(procs, p, 1)

(* line 26: exit(0) in the parent *)
ParentExit(p) == Exit(procs, p, 0)

(* lines 20-27: the tests on fork's result, in the parent and in the child *)
ForkTest(p) ==
    /\ At(p, "forked")
    /\ IF ForkFailed(pid[p])
       THEN /\ Diag(p, "fork", "EAGAIN")
            /\ Exit(procs, p, 1)
       ELSE IF IsParent(pid[p])
       THEN /\ ParentExit(p)
            /\ UNCHANGED stderr
       ELSE /\ Goto(procs, p, "setsid")
            /\ UNCHANGED <<stderr, exitStatus>>
    /\ UNCHANGED <<argc, mainPid, pid, sid, session_file, file, file0, dirState, calls>>

(* why setsid() refuses: the caller leads a process group, or some process *)
(* group carries the caller's identifier, or the system forbids the call   *)
SetsidErrno(p, refuse) ==
    IF IsGroupLeader(p) \/ \E q \in DOMAIN procs : procs[q].pgid = p THEN "EPERM"
    ELSE IF refuse THEN "ENOSYS"
    ELSE ""

(* lines 29-32 *)
Setsid(p) ==
    /\ At(p, "setsid")
    /\ \E refuse \in BOOLEAN :
         LET errno == SetsidErrno(p, refuse)
             r == IF errno = "" THEN p ELSE -1
             os == IF errno = "" THEN [procs EXCEPT ![p].sid = p, ![p].pgid = p]
                   ELSE procs
         IN /\ Called(p, <<Call("setsid", errno = "")>>)
            /\ IF SetsidFailed(r)
               THEN /\ Diag(p, "setsid", errno)
                    /\ Exit(os, p, 1)
               ELSE /\ Goto(os, p, "getsid")
                    /\ UNCHANGED <<stderr, exitStatus>>
    /\ UNCHANGED <<argc, mainPid, pid, sid, session_file, file, file0, dirState>>

(* lines 34-38: getsid(0) is the session of the calling process *)
Getsid(p) ==
    /\ At(p, "getsid")
    /\ \E refuse \in BOOLEAN :
         LET r == IF refuse THEN -1 ELSE procs[p].sid
         IN /\ sid' = [sid EXCEPT ![p] = r]
            /\ Called(p, <<Call("getsid", ~refuse)>>)
            /\ IF GetsidFailed(r)
               THEN /\ Diag(p, "getsid", "EPERM")
                    /\ Exit(procs, p, 1)
               ELSE /\ Goto(procs, p, "fopen")
                    /\ UNCHANGED <<stderr, exitStatus>>
    /\ UNCHANGED <<argc, mainPid, pid, session_file, file, file0, dirState>>

(* lines 40-44: fopen(session_file_path, "w") creates or truncates the file *)
Fopen(p) ==
    /\ At(p, "fopen")
    /\ LET errno == FopenErrno
           stream == IF errno = "" THEN [state |-> "open", buf |-> <<>>]
                     ELSE [state |-> "null", buf |-> <<>>]
       IN /\ session_file' = [session_file EXCEPT ![p] = stream]
          /\ file' = IF errno = "" THEN [exists |-> TRUE, data |-> <<>>] ELSE file
          /\ Called(p, <<Call("fopen", errno = "")>>)
          /\ IF FopenFailed(stream)
             THEN /\ Diag(p, "fopen session file", errno)
                  /\ Exit(procs, p, 1)
             ELSE /\ Goto(procs, p, "fprintf")
                  /\ UNCHANGED <<stderr, exitStatus>>
    /\ UNCHANGED <<argc, mainPid, pid, sid, file0, dirState>>

(* lines 45-49: the text goes to the stream's buffer; on failure the       *)
(* stream is closed, the result of that fclose ignored                     *)
Fprintf(p) ==
    /\ At(p, "fprintf")
    /\ \E ok \in BOOLEAN, pre \in Prefixes(FormatSid(sid[p])) :
         LET text == FormatSid(sid[p])
             r == IF ok THEN Len(text) ELSE -1
             stream == [session_file[p] EXCEPT !.buf = @ \o (IF ok THEN text ELSE pre)]
         IN /\ (ok => pre = text)
            /\ IF FprintfFailed(r)
               THEN \E c \in CloseOutcomes(stream, file) :
                      /\ file' = [file EXCEPT !.data = c.data]
                      /\ session_file' = [session_file EXCEPT
                                            ![p] = [state |-> "closed", buf |-> <<>>]]
                      /\ Called(p, <<Call("fprintf", ok), Call("fclose", c.r = 0)>>)
                      /\ Diag(p, "fprintf session file", "EIO")
                      /\ Exit(procs, p, 1)
               ELSE /\ session_file' = [session_file EXCEPT ![p] = stream]
                    /\ Called(p, <<Call("fprintf", ok)>>)
                    /\ Goto(procs, p, "fflush")
                    /\ UNCHANGED <<file, stderr, exitStatus>>
    /\ UNCHANGED <<argc, mainPid, pid, sid, file0, dirState>>

(* lines 50-54: on failure the stream is closed, the result ignored *)
Fflush(p) ==
    /\ At(p, "fflush")
    /\ \E f \in FlushOutcomes(session_file[p], file) :
         LET stream == [session_file[p] EXCEPT !.buf = f.buf]
             flushed == [file EXCEPT !.data = f.data]
         IN IF FflushFailed(f.r)
            THEN \E c \in CloseOutcomes(stream, flushed) :
                   /\ file' = [file EXCEPT !.data = c.data]
                   /\ session_file' = [session_file EXCEPT
                                         ![p] = [state |-> "closed", buf |-> <<>>]]
                   /\ Called(p, <<Call("fflush", f.r = 0), Call("fclose", c.r = 0)>>)
                   /\ Diag(p, "fflush session file", "EIO")
                   /\ Exit(procs, p, 1)
            ELSE /\ file' = flushed
                 /\ session_file' = [session_file EXCEPT ![p] = stream]
                 /\ Called(p, <<Call("fflush", f.r = 0)>>)
                 /\ Goto(procs, p, "fclose")
                 /\ UNCHANGED <<stderr, exitStatus>>
    /\ UNCHANGED <<argc, mainPid, pid, sid, file0, dirState>>

(* lines 55-58 *)
Fclose(p) ==
    /\ At(p, "fclose")
    /\ \E c \in CloseOutcomes(session_file[p], file) :
         /\ file' = [file EXCEPT !.data = c.data]
         /\ session_file' = [session_file EXCEPT
                               ![p] = [state |-> "closed", buf |-> <<>>]]
         /\ Called(p, <<Call("fclose", c.r = 0)>>)
         /\ IF FcloseFailed(c.r)
            THEN /\ Diag(p, "fclose session file", "EIO")
                 /\ Exit(procs, p, 1)
            ELSE /\ Goto(procs, p, "execvp")
                 /\ UNCHANGED <<stderr, exitStatus>>
    /\ UNCHANGED <<argc, mainPid, pid, sid, file0, dirState>>

(* variant: the command is started as a further process and the caller *)
(* stays behind                                                         *)
SpawnCommand(p) ==
    LET c == CHOOSE q \in Pids \ UsedIds : TRUE
    IN [procs EXCEPT ![p].pc = "waiting"]
          @@ (c :> [procs[p] EXCEPT !.image = "command", !.pc = "command"])

(* execvp that succeeds: the calling process itself now runs the command *)
ReplaceImage(p) == [procs EXCEPT ![p].image = "command", ![p].pc = "command"]

(* lines 60-63: execvp returns only when it fails *)
Execvp(p) ==
    /\ At(p, "execvp")
    /\ \E found \in BOOLEAN :
         /\ Called(p, <<Call("execvp", found)>>)
         /\ IF found
            THEN /\ procs' = ReplaceImage(p)
                 /\ UNCHANGED <<stderr, exitStatus>>
            ELSE /\ Diag(p, "execvp", "ENOENT")
                 /\ Exit(procs, p, 1)
    /\ UNCHANGED <<argc, mainPid, pid, sid, session_file, file, file0, dirState>>

(* the command that replaced main's image terminates, with a status of its *)
(* own choosing                                                             *)
CommandExit(p) ==
    /\ At(p, "command")
    /\ \E st \in 0..MaxStatus : Exit(procs, p, st)
    /\ UNCHANGED <<argc, mainPid, pid, sid, session_file, file, file0, dirState,
                   calls, stderr>>

Next ==
    \/ \E p \in DOMAIN procs : CheckArgs(p)
    \/ \E p \in DOMAIN procs : Fork(p)
    \/ \E p \in DOMAIN procs : ForkTest(p)
    \/ \E p \in DOMAIN procs : Setsid(p)
    \/ \E p \in DOMAIN procs : Getsid(p)
    \/ \E p \in DOMAIN procs : Fopen(p)
    \/ \E p \in DOMAIN procs : Fprintf(p)
    \/ \E p \in DOMAIN procs : Fflush(p)
    \/ \E p \in DOMAIN procs : Fclose(p)
    \/ \E p \in DOMAIN procs : Execvp(p)
    \/ \E p \in DOMAIN procs : CommandExit(p)

Spec == Init /\ [][Next]_vars

----------------------------------------------------------------------------
(* Vocabulary of the properties *)

Exited(p) == p \in DOMAIN exitStatus

HasCalled(p, fn) == \E i \in DOMAIN calls[p] : calls[p][i].fn = fn

Succeeded(p, fn) == \E i \in DOMAIN calls[p] : calls[p][i] = Call(fn, TRUE)

Failed(p, fn) == \E i \in DOMAIN calls[p] : calls[p][i] = Call(fn, FALSE)

Quiescent == \A p \in DOMAIN procs : procs[p].pc = "exited"

DiagsOf(p) == SelectSeq(stderr, LAMBDA d : d.proc = p)

FileCalls == {"fopen", "fprintf", "fflush", "fclose"}

(* the label perror is given for each call *)
Label(fn) ==
    CASE fn = "fopen" -> "fopen session file"
      [] fn = "fprintf" -> "fprintf session file"
      [] fn = "fflush" -> "fflush session file"
      [] fn = "fclose" -> "fclose session file"
      [] OTHER -> fn

FirstFailure(p) ==
    CHOOSE i \in DOMAIN calls[p] :
        /\ ~calls[p][i].ok
        /\ \A j \in 1..(i - 1) : calls[p][j].ok

AnyFailure(p) == \E i \in DOMAIN calls[p] : ~calls[p][i].ok

(* reading a file back as a reader of the session file would *)
IsDigit(ch) == \E d \in 1..10 : Digits[d] = ch

DigitValue(ch) == (CHOOSE d \in 1..10 : Digits[d] = ch) - 1

RECURSIVE ParseDec(_)
ParseDec(s) ==
    IF Len(s) = 0 THEN 0
    ELSE 10 * ParseDec(SubSeq(s, 1, Len(s) - 1)) + DigitValue(s[Len(s)])

OneDecimalLine(data) ==
    /\ Len(data) >= 2
    /\ data[Len(data)] = "\n"
    /\ \A i \in 1..(Len(data) - 1) : IsDigit(data[i])

LineValue(data) == ParseDec(SubSeq(data, 1, Len(data) - 1))

----------------------------------------------------------------------------
(* C1: with fewer than two arguments after the program name (argc < 3)    *)
(* main only ever writes the usage message and returns 1: fork is never   *)
(* called, no second process exists, and the session file is never        *)
(* created, truncated or written.                                         *)
C1_UsageFailure ==
    argc < 3 =>
        /\ DOMAIN procs = {mainPid}
        /\ calls[mainPid] = <<>>
        /\ session_file[mainPid] = NoStream
        /\ file = file0
        /\ procs[mainPid].pc \in {"main", "exited"}
        /\ IF Exited(mainPid)
           THEN /\ exitStatus[mainPid] = 1
                /\ stderr = <<[proc |-> mainPid, msg |-> "usage", errno |-> ""]>>
           ELSE stderr = <<>>

C1_Witness ==
    /\ argc = 2
    /\ Exited(mainPid)
    /\ file0.exists /\ Len(file0.data) > 0

(* C2, as stated: with at least two arguments, once everything has        *)
(* terminated after an execvp attempt, the status the invoker observes    *)
(* (that of the process it started) is the status of the replaced         *)
(* command, or 1 if execvp failed.                                        *)
C2_InvokerSeesCommandStatus ==
    (argc >= 3 /\ Quiescent) =>
        \A c \in DOMAIN procs :
            /\ (Succeeded(c, "execvp") => exitStatus[mainPid] = exitStatus[c])
            /\ (Failed(c, "execvp") => exitStatus[mainPid] = 1)

(* C2, amended: with at least two arguments, the process that attempts    *)
(* execvp terminates with the status of the replaced command (it runs the *)
(* command's image when it terminates), or with status 1 after an execvp  *)
(* diagnostic if execvp failed; the invoker observes the status of the    *)
(* process it started, which is 0 once fork has succeeded and 1 after a   *)
(* fork diagnostic if fork failed.                                        *)
C2_ChildCarriesCommandStatus ==
    argc >= 3 =>
        /\ Exited(mainPid) =>
              IF Succeeded(mainPid, "fork")
              THEN exitStatus[mainPid] = 0 /\ DiagsOf(mainPid) = <<>>
              ELSE /\ exitStatus[mainPid] = 1
                   /\ DiagsOf(mainPid)
                        = <<[proc |-> mainPid, msg |-> "fork", errno |-> "EAGAIN"]>>
        /\ \A c \in DOMAIN procs :
              /\ (Succeeded(c, "execvp") /\ Exited(c)) =>
                    /\ procs[c].image = "command"
                    /\ exitStatus[c] \in 0..MaxStatus
                    /\ DiagsOf(c) = <<>>
              /\ Failed(c, "execvp") =>
                    /\ Exited(c) /\ exitStatus[c] = 1
                    /\ procs[c].image = "setsid"
                    /\ DiagsOf(c) = <<[proc |-> c, msg |-> "execvp", errno |-> "ENOENT"]>>

C2_Witness ==
    /\ argc >= 3
    /\ Quiescent
    /\ \E c \in DOMAIN procs :
         /\ Succeeded(c, "execvp")
         /\ exitStatus[c] = 2
         /\ exitStatus[mainPid] = 0

(* C3: a process attempts execvp only after it has opened the session    *)
(* file, written the session identifier, flushed and closed it, each with *)
(* success and in that order; when execvp is attempted, and when it has   *)
(* failed, the file holds the text of the caller's session identifier and *)
(* the caller's stream is closed.                                         *)
C3_FileWrittenBeforeExec ==
    \A p \in DOMAIN procs :
        (At(p, "execvp") \/ HasCalled(p, "execvp")) =>
            /\ Len(calls[p]) >= 6
            /\ SubSeq(calls[p], 1, 6)
                 = <<Call("setsid", TRUE), Call("getsid", TRUE), Call("fopen", TRUE),
                     Call("fprintf", TRUE), Call("fflush", TRUE), Call("fclose", TRUE)>>
            /\ session_file[p].state = "closed"
            /\ (At(p, "execvp") \/ Failed(p, "execvp")) =>
                  /\ procs[p].sid = p
                  /\ file = [exists |-> TRUE, data |-> FormatSid(procs[p].sid)]

C3_Witness ==
    \E p \in DOMAIN procs :
        /\ Failed(p, "execvp")
        /\ Exited(p)
        /\ file0.exists /\ Len(file0.data) > 0
        /\ p >= 10

(* C4, as stated: when fopen, fprintf, fflush or fclose of the session    *)
(* file fails, the program's status, which its invoker observes, is 1, a  *)
(* file diagnostic is written and execvp is never attempted.              *)
C4_ProgramStatusOneOnFileFailure ==
    \A p \in DOMAIN procs :
        ((\E fn \in FileCalls : Failed(p, fn)) /\ Quiescent) =>
            /\ exitStatus[mainPid] = 1
            /\ \A q \in DOMAIN procs : ~HasCalled(q, "execvp")

(* C4, amended: when fopen, fprintf, fflush or fclose of the session file *)
(* fails, the process that made the call (always the child) terminates    *)
(* with status 1 after one diagnostic that names the failed file step,    *)
(* and execvp is never attempted in that execution; the process the       *)
(* invoker started is another process and terminates with status 0.       *)
C4_ChildStatusOneOnFileFailure ==
    \A p \in DOMAIN procs :
        (\E fn \in FileCalls : Failed(p, fn)) =>
            /\ p # mainPid
            /\ Exited(p) /\ exitStatus[p] = 1
            /\ Len(DiagsOf(p)) = 1
            /\ calls[p][FirstFailure(p)].fn \in FileCalls
            /\ DiagsOf(p)[1].msg = Label(calls[p][FirstFailure(p)].fn)
            /\ \A q \in DOMAIN procs : ~HasCalled(q, "execvp") /\ ~At(q, "execvp")
            /\ Exited(mainPid) => exitStatus[mainPid] = 0

C4_Witness ==
    /\ dirState = "missing"
    /\ Quiescent
    /\ \E p \in DOMAIN procs : Failed(p, "fopen") /\ exitStatus[p] = 1

(* C5: once fork has succeeded, the parent makes no further call (no     *)
(* wait, no setsid, no file call, no execvp), writes no diagnostic, can   *)
(* always take its exit step whatever state the child is in, and exits    *)
(* with status 0; the session file is changed only after a process other  *)
(* than the parent has opened it.                                         *)
C5_ParentExitsAtOnce ==
    Succeeded(mainPid, "fork") =>
        /\ calls[mainPid] = <<Call("fork", TRUE)>>
        /\ session_file[mainPid] = NoStream
        /\ DiagsOf(mainPid) = <<>>
        /\ procs[mainPid].image = "setsid"
        /\ procs[mainPid].sid # mainPid
        /\ procs[mainPid].pc \in {"forked", "exited"}
        /\ (procs[mainPid].pc = "forked" => ENABLED ForkTest(mainPid))
        /\ (Exited(mainPid) => exitStatus[mainPid] = 0)
        /\ (file # file0 => \E c \in DOMAIN procs \ {mainPid} : Succeeded(c, "fopen"))

C5_Witness ==
    /\ Exited(mainPid) /\ exitStatus[mainPid] = 0
    /\ \E c \in DOMAIN procs \ {mainPid} : At(c, "setsid")

(* C6: while the launched command runs or after it has run, the session   *)
(* file exists and is exactly one line, decimal digits and a newline,     *)
(* nothing of its earlier content left; read back as a number it is the   *)
(* session identifier of the command's process.                           *)
C6_FileIsOneLineWithSid ==
    \A p \in DOMAIN procs :
        procs[p].image = "command" =>
            /\ file.exists
            /\ OneDecimalLine(file.data)
            /\ LineValue(file.data) = procs[p].sid
            /\ LineValue(file.data) >= 0
            /\ \A i \in 1..(Len(file.data) - 1) : file.data[i] # "\n"

C6_Witness ==
    \E p \in DOMAIN procs :
        /\ procs[p].image = "command"
        /\ procs[p].sid >= 10
        /\ file0.exists /\ Len(file0.data) > Len(file.data)

(* C7: the process that runs the command is the process fork created (its *)
(* identifier is the value fork returned in the parent) and the one that  *)
(* called setsid and execvp; its session is the one setsid created and    *)
(* getsid reported; fork has been called once and there are two           *)
(* processes.                                                             *)
C7_CommandRunsInChild ==
    \A p \in DOMAIN procs :
        procs[p].image = "command" =>
            /\ p = pid[mainPid]
            /\ p # mainPid
            /\ Succeeded(p, "setsid") /\ Succeeded(p, "execvp")
            /\ procs[p].sid = p
            /\ procs[p].sid = sid[p]
            /\ Cardinality(DOMAIN procs) = 2
            /\ \A q \in DOMAIN procs : HasCalled(q, "fork") <=> q = mainPid
            /\ Len(SelectSeq(calls[mainPid], LAMBDA c : c.fn = "fork")) = 1

C7_Witness ==
    \E p \in DOMAIN procs :
        /\ procs[p].image = "command"
        /\ Exited(p) /\ Exited(mainPid)

NoCallRepeated(p) ==
    \A i, j \in DOMAIN calls[p] : calls[p][i].fn = calls[p][j].fn => i = j

(* a process whose call has failed has terminated with status 1 after one *)
(* diagnostic naming that call (after a failed fork it may still be about *)
(* to test fork's result)                                                 *)
FailureReported(p) ==
    LET fn == calls[p][FirstFailure(p)].fn
    IN \/ fn = "fork" /\ procs[p].pc = "forked" /\ DiagsOf(p) = <<>>
       \/ /\ Exited(p) /\ exitStatus[p] = 1
          /\ procs[p].image = "setsid"
          /\ Len(DiagsOf(p)) = 1
          /\ DiagsOf(p)[1].msg = Label(fn)

(* C8, as stated: a failed call is the last call its process makes (no    *)
(* later step of the sequence runs), the process reports it and           *)
(* terminates with status 1, and no call is made twice.                   *)
C8_FailedCallIsLastCall ==
    \A p \in DOMAIN procs :
        /\ NoCallRepeated(p)
        /\ AnyFailure(p) =>
              /\ FailureReported(p)
              /\ FirstFailure(p) = Len(calls[p])

(* C8, amended: a failed call is terminal: the process reports it with a  *)
(* diagnostic naming the call and terminates with status 1, and no call   *)
(* is made twice; no later step of the sequence runs, except that after a *)
(* failed fprintf or fflush the stream is closed with fclose (its result  *)
(* ignored) before the process terminates.                                *)
C8_FailureIsTerminal ==
    \A p \in DOMAIN procs :
        /\ NoCallRepeated(p)
        /\ AnyFailure(p) =>
              LET i == FirstFailure(p)
              IN /\ FailureReported(p)
                 /\ \/ i = Len(calls[p])
                    \/ /\ calls[p][i].fn \in {"fprintf", "fflush"}
                       /\ Len(calls[p]) = i + 1
                       /\ calls[p][i + 1].fn = "fclose"
                       /\ session_file[p].state = "closed"

C8_Witness ==
    \E p \in DOMAIN procs :
        /\ Failed(p, "fflush")
        /\ HasCalled(p, "fclose")
        /\ Exited(p)

(* C9: a process about to call setsid is the child: its process group is  *)
(* the parent's, not its own, no process group carries its identifier, so *)
(* setsid has no reason to answer EPERM and never does; once setsid has   *)
(* succeeded the process leads its session and its process group.         *)
C9_ChildNeverGroupLeader ==
    /\ \A p \in DOMAIN procs :
          /\ At(p, "setsid") =>
                /\ p # mainPid
                /\ ~IsGroupLeader(p)
                /\ procs[p].pgid = procs[mainPid].pgid
                /\ procs[p].sid = procs[mainPid].sid
                /\ SetsidErrno(p, FALSE) = ""
          /\ Succeeded(p, "setsid") =>
                /\ procs[p].sid = p
                /\ IsGroupLeader(p)
    /\ \A i \in DOMAIN stderr : ~(stderr[i].msg = "setsid" /\ stderr[i].errno = "EPERM")

C9_Witness ==
    \E p \in DOMAIN procs :
        /\ Succeeded(p, "setsid")
        /\ IsGroupLeader(mainPid)
        /\ procs[p].sid = p /\ procs[p].pgid = p

(* C10: fopen is called only by a process other than the parent, as its   *)
(* third call, after setsid and getsid have both succeeded; until then,   *)
(* and for good when the argument check, fork, setsid or getsid fails,    *)
(* the session file is as it was at the start: absent if it was absent,   *)
(* with its content if it was there.                                      *)
C10_FileUntouchedBeforeFopen ==
    /\ \A p \in DOMAIN procs :
          HasCalled(p, "fopen") =>
              /\ p # mainPid
              /\ Len(calls[p]) >= 3
              /\ SubSeq(calls[p], 1, 2) = <<Call("setsid", TRUE), Call("getsid", TRUE)>>
              /\ calls[p][3].fn = "fopen"
    /\ (\A p \in DOMAIN procs : ~HasCalled(p, "fopen")) => file = file0
    /\ ( \/ argc < 3
         \/ \E p \in DOMAIN procs, fn \in {"fork", "setsid", "getsid"} : Failed(p, fn) )
       => /\ file = file0
          /\ \A p \in DOMAIN procs : ~HasCalled(p, "fopen") /\ ~At(p, "fopen")

C10_Witness ==
    /\ Quiescent
    /\ \E p \in DOMAIN procs : Failed(p, "getsid")
    /\ file0.exists /\ Len(file0.data) > 0
    /\ dirState = "writable"

====
